---- MODULE Spec2Model ----
(***************************************************************************)
(* A model of the single-page RAG client: the App component (src/App.tsx)  *)
(* with its upload orchestrator (onFileUpload), chat orchestrator          *)
(* (handleSendMessage), configuration handlers and PDF text extraction,    *)
(* and the two service wrappers it calls (SupabaseService, GeminiService). *)
(*                                                                         *)
(* React state is modelled as variables that a handler's setState calls    *)
(* update atomically up to the handler's next await.  Every await is a     *)
(* suspension point: the continuation is a separate action, so uploads,    *)
(* chat exchanges and configuration actions interleave freely.             *)
(*                                                                         *)
(* The `disabled` attributes of the file input and the chat form are not   *)
(* guards of the handlers: a handler is entered with whatever guard its    *)
(* own code has.  An inline handler of an element that is rendered only    *)
(* under a condition (the config form, the Reset button, the banner's      *)
(* dismiss button) is guarded by that rendering condition.  The active tab *)
(* is view state that no handler reads and is left out.                    *)
(*                                                                         *)
(* Strings are sequences of tokens: a text is a sequence of characters     *)
(* (" " is whitespace), a message is a sequence of words, a file name is a *)
(* sequence whose last token is its extension.                             *)
(***************************************************************************)
EXTENDS Integers, Sequences, FiniteSets, TLC

\* ----------------------------------------------------------------- bounds
MaxUploads == 2
MaxChats == 2
MaxClock == 2
MaxPages == 3
MaxFrags == 2
MaxNameLen == 2

VARIABLES
    \* configuration (App.tsx:36-41, SupabaseService.client)
    localStorage, supabaseConfig, isConfigured, client,
    \* upload orchestrator
    documents, isUploading, errorStatus, uploads, normCalls, storeCalls, caught,
    \* chat orchestrator
    chatMessages, inputMessage, isAnswering, chats, now, searchCalls, genCalls,
    \* PDF extraction
    pdfPages, pdfPc, pdfI, fullText, pdfLog

configVars == <<localStorage, supabaseConfig, isConfigured, client>>
uploadVars == <<documents, isUploading, errorStatus, uploads, normCalls, storeCalls, caught>>
chatVars == <<chatMessages, inputMessage, isAnswering, chats, now, searchCalls, genCalls>>
pdfVars == <<pdfPages, pdfPc, pdfI, fullText, pdfLog>>
vars == <<configVars, uploadVars, chatVars, pdfVars>>

\* ----------------------------------------------------------------- values
\* null, for a state that otherwise holds a string or a client
Null == <<"null">>
EmptyString == <<>>

\* Credential strings typed into the two config inputs.
Urls == {EmptyString, <<"u">>}
Keys == {EmptyString, <<"k">>}

PdfMime == "application/pdf"
DocxMime == "application/vnd.openxmlformats-officedocument.wordprocessingml.document"
PlainMime == "text/plain"

NoFile == [name |-> EmptyString, type |-> "nofile"]
Files ==
    { [name |-> <<"report", ".pdf">>, type |-> PdfMime],
      [name |-> <<"readme", ".txt">>, type |-> PlainMime] }

\* Document ids: Math.random().toString(36).substr(2, 9) draws one of 36^9
\* strings; a draw is taken to differ from the ids already in the registry.
Ids == 1..MaxUploads

\* Texts an extraction strategy can produce.
Texts == { EmptyString, <<" ">>, <<" ", "a", " ">> }
\* Texts of the model's generateContent response (response.text, maybe empty).
ResponseTexts == { EmptyString, <<"c">> }

NoError == [code |-> "none", message |-> <<"none">>]
\* Errors of a rejected file read, extraction or language-model call.
GenericErrors ==
    { [code |-> "", message |-> <<"network", "down">>],
      [code |-> "", message |-> EmptyString] }
\* PostgrestError objects of a failed insert/select: a code and a message.
StoreErrors ==
    { [code |-> "PGRST205", message |-> <<"Could", "not", "find", "the", "table", "documents">>],
      [code |-> "PGRST205", message |-> <<"schema", "cache", "miss">>],
      [code |-> "42501", message |-> <<"PGRST205">>],
      [code |-> "23505", message |-> <<"duplicate", "key">>] }
EmptyFileError == [code |-> "", message |-> <<"File", "is", "empty.">>]
NotInitError == [code |-> "", message |-> <<"Supabase", "not", "initialized">>]

SchemaMessage == <<"Table", "'documents'", "missing", "in", "Supabase.", "Check", "Setup", "SQL.">>
FailedToUpload == <<"Failed", "to", "upload.">>

\* ----------------------------------------------------------------- helpers
\* String.prototype.includes at word granularity.
Includes(msg, word) == \E i \in DOMAIN msg : msg[i] = word

\* String.prototype.endsWith on a tokenised file name.
EndsWith(name, ext) == Len(name) > 0 /\ name[Len(name)] = ext

IsSpace(ch) == ch = " "

RECURSIVE TrimStart(_)
TrimStart(s) ==
    IF s = <<>> THEN <<>>
    ELSE IF IsSpace(Head(s)) THEN TrimStart(Tail(s)) ELSE s

RECURSIVE TrimEnd(_)
TrimEnd(s) ==
    IF s = <<>> THEN <<>>
    ELSE IF IsSpace(s[Len(s)]) THEN TrimEnd(SubSeq(s, 1, Len(s) - 1)) ELSE s

\* trim that strips nothing
TrimNothing(s) == s

\* String.prototype.trim
Trim(s) == TrimEnd(TrimStart(s))

\* createClient(url, key) of @supabase/supabase-js, called by SupabaseService.init:
\* it throws when the url or the key is missing ("supabaseUrl is required.",
\* "supabaseKey is required.") and may throw on a url it cannot parse.
CreateClientResults(url, key) ==
    IF url = EmptyString \/ key = EmptyString THEN {"throw"} ELSE {"ok", "throw"}

\* a dispatch that tests the Word rule before the PDF rule
StrategyWordFirst(file) ==
    IF file.type = DocxMime \/ EndsWith(file.name, ".docx") THEN "docx"
    ELSE IF file.type = PdfMime \/ EndsWith(file.name, ".pdf") THEN "pdf"
    ELSE "text"

\* first match wins (App.tsx:100-107)
Strategy(file) ==
    IF file.type = PdfMime \/ EndsWith(file.name, ".pdf") THEN "pdf"
    ELSE IF file.type = DocxMime \/ EndsWith(file.name, ".docx") THEN "docx"
    ELSE "text"

\* the locals of one onFileUpload call: newDoc.id, file, extractedText, processedContent
IdleUpload ==
    [pc |-> "idle", id |-> 0, file |-> NoFile, text |-> EmptyString, processed |-> EmptyString]

UploadIds == 1..MaxUploads

\* The registry positions holding the document with a given id.
DocsWithId(id) == { i \in DOMAIN documents : documents[i].id = id }

\* ----------------------------------------------------------------- configuration
\* useEffect on [supabaseConfig] (runs after mount and after every edit)
ConfigEffect(cfg, r) ==
    IF cfg.url # EmptyString /\ cfg.key # EmptyString /\ r = "ok"
    THEN /\ client' = <<cfg.url, cfg.key>>
         /\ isConfigured' = TRUE
    ELSE /\ client' = client
         /\ isConfigured' = isConfigured

\* a url input that is rendered whether or not the project is connected
EditUrlAlways(v) ==
    /\ v # supabaseConfig.url
    /\ supabaseConfig' = [supabaseConfig EXCEPT !.url = v]
    /\ \E r \in CreateClientResults(v, supabaseConfig.key) : ConfigEffect(supabaseConfig', r)
    /\ UNCHANGED <<localStorage, uploadVars, chatVars, pdfVars>>

\* onChange of the url input, rendered while not configured (App.tsx:212-219)
EditUrl(v) ==
    /\ ~isConfigured
    /\ v # supabaseConfig.url
    /\ supabaseConfig' = [supabaseConfig EXCEPT !.url = v]
    /\ \E r \in CreateClientResults(v, supabaseConfig.key) : ConfigEffect(supabaseConfig', r)
    /\ UNCHANGED <<localStorage, uploadVars, chatVars, pdfVars>>

EditKey(v) ==
    /\ ~isConfigured
    /\ v # supabaseConfig.key
    /\ supabaseConfig' = [supabaseConfig EXCEPT !.key = v]
    /\ \E r \in CreateClientResults(supabaseConfig.url, v) : ConfigEffect(supabaseConfig', r)
    /\ UNCHANGED <<localStorage, uploadVars, chatVars, pdfVars>>

handleConfigSave ==
    /\ ~isConfigured
    /\ localStorage' = [sb_url |-> supabaseConfig.url, sb_key |-> supabaseConfig.key]
    /\ \E r \in CreateClientResults(supabaseConfig.url, supabaseConfig.key) :
         IF r = "ok"
         THEN /\ client' = <<supabaseConfig.url, supabaseConfig.key>>
              /\ isConfigured' = TRUE
              /\ errorStatus' = Null
         ELSE UNCHANGED <<client, isConfigured, errorStatus>>
    /\ UNCHANGED <<supabaseConfig, documents, isUploading, uploads, normCalls, storeCalls,
                   caught, chatVars, pdfVars>>

Reset ==
    /\ isConfigured
    /\ isConfigured' = FALSE
    /\ UNCHANGED <<localStorage, supabaseConfig, client, uploadVars, chatVars, pdfVars>>

\* ----------------------------------------------------------------- upload orchestrator
\* a success patch that takes the newest entry for the upload's own
PatchReadyHead(docs, id, content) ==
    [i \in DOMAIN docs |->
        IF i = 1 THEN [docs[i] EXCEPT !.content = content, !.status = "ready"] ELSE docs[i]]

\* a success patch that sets the status and forgets the content
PatchReadyStatusOnly(docs, id, content) ==
    [i \in DOMAIN docs |->
        IF docs[i].id = id THEN [docs[i] EXCEPT !.status = "ready"] ELSE docs[i]]

\* documents.map(d => d.id === id ? patch(d) : d)
PatchReady(docs, id, content) ==
    [i \in DOMAIN docs |->
        IF docs[i].id = id THEN [docs[i] EXCEPT !.content = content, !.status = "ready"]
        ELSE docs[i]]

\* a failure patch that leaves the registry as it is
PatchErrorNone(docs, id) == docs

\* a failure patch that is not keyed by id
PatchErrorAll(docs, id) == [i \in DOMAIN docs |-> [docs[i] EXCEPT !.status = "error"]]

PatchError(docs, id) ==
    [i \in DOMAIN docs |->
        IF docs[i].id = id THEN [docs[i] EXCEPT !.status = "error"] ELSE docs[i]]

\* the banner text of the catch block (App.tsx:119-124)
BannerFor(error) ==
    LET msg == IF error.message = EmptyString THEN FailedToUpload ELSE error.message
    IN  IF Includes(msg, "PGRST205") \/ Includes(msg, "documents")
        THEN SchemaMessage
        ELSE msg

\* [...prev, newDoc]
InsertDocLast(docs, doc) == Append(docs, doc)

\* [newDoc, ...prev]
InsertDoc(docs, doc) == <<doc>> \o docs

\* the guard of onFileUpload (App.tsx:83)
UploadRejected(file) == file = NoFile \/ ~isConfigured

\* catch + finally of onFileUpload
UploadCatch(u, locals, error) ==
    /\ errorStatus' = BannerFor(error)
    /\ documents' = PatchError(documents, uploads[u].id)
    /\ isUploading' = FALSE
    /\ caught' = error
    /\ uploads' = [uploads EXCEPT ![u] = [locals EXCEPT !.pc = "done"]]

\* the tail of the try block once the extracted text is known (App.tsx:109-111)
AfterExtract(u, text) ==
    IF Trim(text) = EmptyString
    THEN /\ UploadCatch(u, [uploads[u] EXCEPT !.text = text], EmptyFileError)
         /\ UNCHANGED <<normCalls, storeCalls>>
    ELSE /\ normCalls' = normCalls \cup {[id |-> uploads[u].id, name |-> uploads[u].file.name, content |-> text]}
         /\ uploads' = [uploads EXCEPT ![u].pc = "normalize", ![u].text = text]
         /\ UNCHANGED <<documents, isUploading, errorStatus, storeCalls, caught>>

onFileUpload(u, file, id) ==
    /\ uploads[u].pc = "idle"
    /\ \A v \in UploadIds : v < u => uploads[v].pc # "idle"
    /\ DocsWithId(id) = {}
    /\ IF UploadRejected(file)
       THEN UNCHANGED uploadVars
       ELSE /\ isUploading' = TRUE
            /\ errorStatus' = Null
            /\ documents' = InsertDoc(documents,
                   [id |-> id, name |-> file.name, content |-> EmptyString, status |-> "processing"])
            /\ uploads' = [uploads EXCEPT ![u] = [IdleUpload EXCEPT !.pc = "read", !.id = id, !.file = file]]
            /\ UNCHANGED <<normCalls, storeCalls, caught>>
    /\ UNCHANGED <<configVars, chatVars, pdfVars>>

\* file.arrayBuffer() settles
ReadSettles(u) ==
    /\ uploads[u].pc = "read"
    /\ \/ \E e \in GenericErrors :
             /\ UploadCatch(u, uploads[u], e)
             /\ UNCHANGED <<normCalls, storeCalls>>
       \/ /\ Strategy(uploads[u].file) \in {"pdf", "docx"}
          /\ uploads' = [uploads EXCEPT ![u].pc =
                 IF Strategy(uploads[u].file) = "pdf" THEN "extractPdf" ELSE "extractDocx"]
          /\ UNCHANGED <<documents, isUploading, errorStatus, normCalls, storeCalls, caught>>
       \/ /\ Strategy(uploads[u].file) = "text"
          /\ \E t \in Texts : AfterExtract(u, t)
    /\ UNCHANGED <<configVars, chatVars, pdfVars>>

\* extractTextFromPdf / extractTextFromDocx settles
ExtractSettles(u) ==
    /\ uploads[u].pc \in {"extractPdf", "extractDocx"}
    /\ \/ \E e \in GenericErrors :
             /\ UploadCatch(u, uploads[u], e)
             /\ UNCHANGED <<normCalls, storeCalls>>
       \/ \E t \in Texts : AfterExtract(u, t)
    /\ UNCHANGED <<configVars, chatVars, pdfVars>>

\* gemini.processFileContent settles; on success supabase.storeDocument is called,
\* which throws at once without a client (part_001:11)
NormalizeSettles(u) ==
    /\ uploads[u].pc = "normalize"
    /\ \/ \E e \in GenericErrors :
             /\ UploadCatch(u, uploads[u], e)
             /\ UNCHANGED <<normCalls, storeCalls>>
       \/ \E p \in ResponseTexts :
             /\ storeCalls' = storeCalls \cup
                    {[id |-> uploads[u].id, name |-> uploads[u].file.name, content |-> p]}
             /\ IF client = Null
                THEN UploadCatch(u, [uploads[u] EXCEPT !.processed = p], NotInitError)
                ELSE /\ uploads' = [uploads EXCEPT ![u].pc = "store", ![u].processed = p]
                     /\ UNCHANGED <<documents, isUploading, errorStatus, caught>>
             /\ UNCHANGED normCalls
    /\ UNCHANGED <<configVars, chatVars, pdfVars>>

\* the insert of supabase.storeDocument settles (part_001:13-29)
StoreSettles(u) ==
    /\ uploads[u].pc = "store"
    /\ \/ \E e \in StoreErrors : UploadCatch(u, uploads[u], e)
       \/ /\ documents' = PatchReady(documents, uploads[u].id, uploads[u].processed)
          /\ isUploading' = FALSE
          /\ uploads' = [uploads EXCEPT ![u].pc = "done"]
          /\ UNCHANGED <<errorStatus, caught>>
    /\ UNCHANGED <<normCalls, storeCalls, configVars, chatVars, pdfVars>>

\* the banner's dismiss button (App.tsx:307), rendered while errorStatus is set
DismissError ==
    /\ errorStatus # Null
    /\ errorStatus' = Null
    /\ UNCHANGED <<documents, isUploading, uploads, normCalls, storeCalls, caught,
                   configVars, chatVars, pdfVars>>

\* ----------------------------------------------------------------- chat orchestrator
ChatIds == 1..MaxChats

\* what the user can type into the chat input
Questions == { EmptyString, <<" ">>, <<"q">> }

\* the locals of one handleSendMessage call: the inputMessage of its closure
IdleChat == [pc |-> "idle", question |-> EmptyString]

DefaultChatError ==
    <<"Could", "not", "retrieve", "knowledge.", "Ensure", "your", "Supabase", "table",
      "'documents'", "is", "created.">>
SorryText == <<"I'm", "sorry,", "I", "couldn't", "generate", "an", "answer.">>

\* Number.prototype.toString of a clock reading: decimal digits, most significant first
RECURSIVE NumberToString(_)
NumberToString(n) == IF n < 10 THEN <<n>> ELSE NumberToString(n \div 10) \o <<n % 10>>

\* a guard without the single-flight test
ChatRejectedEmptyOnly == Trim(inputMessage) = EmptyString

\* the guard of handleSendMessage (App.tsx:136)
ChatRejected == Trim(inputMessage) = EmptyString \/ isAnswering

UserMessage(t, content) == [id |-> NumberToString(t), role |-> "user", content |-> content]

\* the assistant message of the success path (App.tsx:146)
AnswerMessage(t, text) == [id |-> NumberToString(t + 1), role |-> "assistant", content |-> text]

\* the assistant message of the catch block (App.tsx:148-152)
ErrorMessage(t, error) ==
    [id |-> NumberToString(t), role |-> "assistant",
     content |-> <<"Error:">> \o
        (IF error.message = EmptyString THEN DefaultChatError ELSE error.message)]

\* a catch block with no finally: the answering flag stays set
ChatCatchNoFinally(c, error) ==
    /\ chatMessages' = Append(chatMessages, ErrorMessage(now, error))
    /\ isAnswering' = isAnswering
    /\ chats' = [chats EXCEPT ![c].pc = "done"]

\* catch + finally of handleSendMessage
ChatCatch(c, error) ==
    /\ chatMessages' = Append(chatMessages, ErrorMessage(now, error))
    /\ isAnswering' = FALSE
    /\ chats' = [chats EXCEPT ![c].pc = "done"]

\* onChange of the chat input (App.tsx:392)
SetInput(v) ==
    /\ v # inputMessage
    /\ inputMessage' = v
    /\ UNCHANGED <<chatMessages, isAnswering, chats, now, searchCalls, genCalls,
                   configVars, uploadVars, pdfVars>>

\* the handler up to its first await: supabase.searchKnowledgeBase is called,
\* and rejects at once without a client (part_001:33)
handleSendMessage(c) ==
    /\ chats[c].pc = "idle"
    /\ \A d \in ChatIds : d < c => chats[d].pc # "idle"
    /\ IF ChatRejected
       THEN UNCHANGED chatVars
       ELSE /\ chatMessages' = Append(chatMessages, UserMessage(now, inputMessage))
            /\ inputMessage' = EmptyString
            /\ isAnswering' = TRUE
            /\ searchCalls' = searchCalls \cup {[chat |-> c, query |-> inputMessage]}
            /\ chats' = [chats EXCEPT ![c] =
                   [pc |-> IF client = Null THEN "rejected" ELSE "search",
                    question |-> inputMessage]]
            /\ UNCHANGED <<now, genCalls>>
    /\ UNCHANGED <<configVars, uploadVars, pdfVars>>

\* the rejection of searchKnowledgeBase without a client reaches the catch block
SearchRejected(c) ==
    /\ chats[c].pc = "rejected"
    /\ ChatCatch(c, NotInitError)
    /\ UNCHANGED <<inputMessage, now, searchCalls, genCalls, configVars, uploadVars, pdfVars>>

\* the select of searchKnowledgeBase settles; on success gemini.generateAnswer is called
SearchSettles(c) ==
    /\ chats[c].pc = "search"
    /\ \/ /\ \E e \in GenericErrors : ChatCatch(c, e)
          /\ UNCHANGED genCalls
       \/ /\ genCalls' = genCalls \cup {[chat |-> c, question |-> chats[c].question]}
          /\ chats' = [chats EXCEPT ![c].pc = "generate"]
          /\ UNCHANGED <<chatMessages, isAnswering>>
    /\ UNCHANGED <<inputMessage, now, searchCalls, configVars, uploadVars, pdfVars>>

\* gemini.generateAnswer settles (part_000:34-57)
GenerateSettles(c) ==
    /\ chats[c].pc = "generate"
    /\ \/ \E e \in GenericErrors : ChatCatch(c, e)
       \/ \E r \in ResponseTexts :
             /\ chatMessages' = Append(chatMessages,
                    AnswerMessage(now, IF r = EmptyString THEN SorryText ELSE r))
             /\ isAnswering' = FALSE
             /\ chats' = [chats EXCEPT ![c].pc = "done"]
    /\ UNCHANGED <<inputMessage, now, searchCalls, genCalls, configVars, uploadVars, pdfVars>>

\* Date.now() advances
Tick ==
    /\ now < MaxClock
    /\ now' = now + 1
    /\ UNCHANGED <<chatMessages, inputMessage, isAnswering, chats, searchCalls, genCalls,
                   configVars, uploadVars, pdfVars>>

\* ----------------------------------------------------------------- PDF extraction
\* the str values of a page's text items
Fragments == {"A", "B"}

RECURSIVE SeqsUpTo(_, _)
SeqsUpTo(S, n) ==
    IF n = 0 THEN {<<>>}
    ELSE LET shorter == SeqsUpTo(S, n - 1)
         IN  shorter \cup {Append(q, x) : q \in {r \in shorter : Len(r) = n - 1}, x \in S}

\* a page is the sequence of its fragments, a PDF the sequence of its pages
PageContents == SeqsUpTo(Fragments, MaxFrags)
Pdfs == SeqsUpTo(PageContents, MaxPages)

\* Array.prototype.join
RECURSIVE Join(_, _)
Join(items, sep) ==
    IF items = <<>> THEN <<>>
    ELSE IF Len(items) = 1 THEN <<items[1]>>
    ELSE <<items[1], sep>> \o Join(Tail(items), sep)

\* a page line without its newline
PageLineNoNewline(items) == Join(items, " ")

\* pageText + '\n' (App.tsx:70-71)
PageLine(items) == Join(items, " ") \o <<"\n">>

\* pdfjs.getDocument settles: the loop starts at i = 1
PdfOpen ==
    /\ pdfPc = "open"
    /\ fullText' = <<>>
    /\ pdfI' = 1
    /\ IF 1 <= Len(pdfPages)
       THEN /\ pdfPc' = "getPage"
            /\ pdfLog' = Append(pdfLog, <<"getPage", 1>>)
       ELSE /\ pdfPc' = "done"
            /\ pdfLog' = pdfLog
    /\ UNCHANGED <<pdfPages, configVars, uploadVars, chatVars>>

\* pdf.getPage(i) settles: page.getTextContent() is called
PdfGetPage ==
    /\ pdfPc = "getPage"
    /\ pdfPc' = "getText"
    /\ pdfLog' = Append(pdfLog, <<"getTextContent", pdfI>>)
    /\ UNCHANGED <<pdfPages, pdfI, fullText, configVars, uploadVars, chatVars>>

\* page.getTextContent() settles: the page's line is appended, i++ and the loop test
PdfGetText ==
    /\ pdfPc = "getText"
    /\ fullText' = fullText \o PageLine(pdfPages[pdfI])
    /\ pdfI' = pdfI + 1
    /\ IF pdfI + 1 <= Len(pdfPages)
       THEN /\ pdfPc' = "getPage"
            /\ pdfLog' = Append(pdfLog, <<"text", pdfI>>) \o <<<<"getPage", pdfI + 1>>>>
       ELSE /\ pdfPc' = "done"
            /\ pdfLog' = Append(pdfLog, <<"text", pdfI>>)
    /\ UNCHANGED <<pdfPages, configVars, uploadVars, chatVars>>

\* ----------------------------------------------------------------- specifications
InitConfig ==
    /\ localStorage \in [sb_url : Urls, sb_key : Keys]
    /\ supabaseConfig = [url |-> localStorage.sb_url, key |-> localStorage.sb_key]
    /\ \E r \in CreateClientResults(supabaseConfig.url, supabaseConfig.key) :
         IF supabaseConfig.url # EmptyString /\ supabaseConfig.key # EmptyString /\ r = "ok"
         THEN client = <<supabaseConfig.url, supabaseConfig.key>> /\ isConfigured = TRUE
         ELSE client = Null /\ isConfigured = FALSE

InitUpload ==
    /\ documents = <<>>
    /\ isUploading = FALSE
    /\ errorStatus = Null
    /\ uploads = [u \in UploadIds |-> IdleUpload]
    /\ normCalls = {}
    /\ storeCalls = {}
    /\ caught = NoError

InitChat ==
    /\ chatMessages = <<>>
    /\ inputMessage = EmptyString
    /\ isAnswering = FALSE
    /\ chats = [c \in ChatIds |-> IdleChat]
    /\ now = 0
    /\ searchCalls = {}
    /\ genCalls = {}

InitPdfIdle ==
    /\ pdfPages = <<>>
    /\ pdfPc = "done"
    /\ pdfI = 1
    /\ fullText = <<>>
    /\ pdfLog = <<>>

\* Connect and Reset, the configuration steps an upload or an exchange can meet
ConnectNext ==
    \/ handleConfigSave
    \/ Reset

\* the upload orchestrator with the configuration handlers
Init == InitConfig /\ InitUpload /\ InitChat /\ InitPdfIdle

Next ==
    \/ ConnectNext
    \/ \E u \in UploadIds, f \in Files \cup {NoFile}, id \in Ids : onFileUpload(u, f, id)
    \/ \E u \in UploadIds : ReadSettles(u)
    \/ \E u \in UploadIds : ExtractSettles(u)
    \/ \E u \in UploadIds : NormalizeSettles(u)
    \/ \E u \in UploadIds : StoreSettles(u)
    \/ DismissError

Spec == Init /\ [][Next]_vars

\* the chat orchestrator with the configuration handlers
NextChat ==
    \/ ConnectNext
    \/ \E v \in Questions : SetInput(v)
    \/ \E c \in ChatIds : handleSendMessage(c)
    \/ \E c \in ChatIds : SearchRejected(c)
    \/ \E c \in ChatIds : SearchSettles(c)
    \/ \E c \in ChatIds : GenerateSettles(c)
    \/ Tick

SpecChat == Init /\ [][NextChat]_vars

\* extractTextFromPdf on every PDF within the bounds
InitPdf ==
    /\ localStorage = [sb_url |-> EmptyString, sb_key |-> EmptyString]
    /\ supabaseConfig = [url |-> EmptyString, key |-> EmptyString]
    /\ client = Null
    /\ isConfigured = FALSE
    /\ InitUpload /\ InitChat
    /\ pdfPages \in Pdfs
    /\ pdfPc = "open"
    /\ pdfI = 1
    /\ fullText = <<>>
    /\ pdfLog = <<>>

NextPdf == PdfOpen \/ PdfGetPage \/ PdfGetText

SpecPdf == InitPdf /\ [][NextPdf]_vars

\* one upload of any file: every MIME type with every name within the bound
NameTokens == {"a", ".pdf", ".docx", ".txt"}
MimeTypes == {PdfMime, DocxMime, PlainMime, ""}
AllFiles == [name : SeqsUpTo(NameTokens, MaxNameLen), type : MimeTypes]

NextDispatch ==
    \/ \E f \in AllFiles, id \in Ids : onFileUpload(1, f, id)
    \/ ReadSettles(1)
    \/ ExtractSettles(1)
    \/ NormalizeSettles(1)
    \/ StoreSettles(1)

SpecDispatch == Init /\ [][NextDispatch]_vars

\* a page reload: the component state is rebuilt from localStorage (App.tsx:30-52),
\* the service module starts without a client, pending handlers are gone
Reload ==
    /\ supabaseConfig' = [url |-> localStorage.sb_url, key |-> localStorage.sb_key]
    /\ \E r \in CreateClientResults(localStorage.sb_url, localStorage.sb_key) :
         IF localStorage.sb_url # EmptyString /\ localStorage.sb_key # EmptyString /\ r = "ok"
         THEN client' = <<localStorage.sb_url, localStorage.sb_key>> /\ isConfigured' = TRUE
         ELSE client' = Null /\ isConfigured' = FALSE
    /\ documents' = <<>>
    /\ isUploading' = FALSE
    /\ errorStatus' = Null
    /\ uploads' = [u \in UploadIds |-> IdleUpload]
    /\ normCalls' = {}
    /\ storeCalls' = {}
    /\ caught' = NoError
    /\ chatMessages' = <<>>
    /\ inputMessage' = EmptyString
    /\ isAnswering' = FALSE
    /\ chats' = [c \in ChatIds |-> IdleChat]
    /\ searchCalls' = {}
    /\ genCalls' = {}
    /\ UNCHANGED <<localStorage, now, pdfVars>>

\* every configuration action, with one upload that they gate
NextConfig ==
    \/ \E v \in Urls : EditUrl(v)
    \/ \E v \in Keys : EditKey(v)
    \/ handleConfigSave
    \/ Reset
    \/ Reload
    \/ \E f \in Files \cup {NoFile}, id \in Ids : onFileUpload(1, f, id)
    \/ ReadSettles(1)
    \/ ExtractSettles(1)
    \/ NormalizeSettles(1)
    \/ StoreSettles(1)

SpecConfig == Init /\ [][NextConfig]_vars

\* ----------------------------------------------------------------- properties
InFlightUploads == { u \in UploadIds : uploads[u].pc \notin {"idle", "done"} }
InFlightChats == { c \in ChatIds : chats[c].pc \notin {"idle", "done"} }

\* onFileUpload passes its guard in this step
UploadStarts == \E u \in UploadIds : uploads[u].pc = "idle" /\ uploads'[u].pc # "idle"
\* handleSendMessage passes its guard in this step
ChatStarts == \E c \in ChatIds : chats[c].pc = "idle" /\ chats'[c].pc # "idle"

\* C1: every upload whose handler has settled has its document in the registry
\* with status ready or error, never processing, whichever step failed.
C1_SettledIsReadyOrError ==
    \A u \in UploadIds :
        uploads[u].pc = "done" =>
            /\ DocsWithId(uploads[u].id) # {}
            /\ \A i \in DocsWithId(uploads[u].id) : documents[i].status \in {"ready", "error"}

\* both ends happen: one upload settled ready, another settled error
C1_Witness ==
    \E u, v \in UploadIds :
        /\ uploads[u].pc = "done" /\ uploads[v].pc = "done"
        /\ \E i \in DocsWithId(uploads[u].id) : documents[i].status = "ready"
        /\ \E j \in DocsWithId(uploads[v].id) : documents[j].status = "error"

\* C2: the step in which an upload starts puts a new processing document with
\* empty content at index 1, keeps the earlier entries in order behind it, and
\* leaves the upload waiting for the file read.
C2_InsertAtHead ==
    [][\A u \in UploadIds :
          (uploads[u].pc = "idle" /\ uploads'[u].pc # "idle") =>
              /\ uploads'[u].pc = "read"
              /\ Len(documents') = Len(documents) + 1
              /\ documents'[1] = [id |-> uploads'[u].id, name |-> uploads'[u].file.name,
                                  content |-> EmptyString, status |-> "processing"]
              /\ Tail(documents') = documents]_vars

\* a second upload has just started in front of an earlier entry
C2_Witness ==
    /\ Len(documents) = 2
    /\ uploads[2].pc = "read"
    /\ documents[1].id = uploads[2].id
    /\ documents[1].status = "processing"
    /\ documents[2].id = uploads[1].id

\* C3: while the configured flag is false no upload and no chat exchange starts,
\* and no submission calls the Document Store's search.
C3_UnconfiguredRejects ==
    [][~isConfigured => (~UploadStarts /\ ~ChatStarts /\ searchCalls' = searchCalls)]_vars

\* C4: the log alternates user, assistant; every accepted question has added its
\* user message, every settled exchange its one assistant message (an answer or
\* an "Error:" message), and with no exchange outstanding the answering flag is false.
C4_TwoEntriesPerQuestion ==
    LET started == { c \in ChatIds : chats[c].pc # "idle" }
        settled == { c \in ChatIds : chats[c].pc = "done" }
    IN  /\ Len(chatMessages) = Cardinality(started) + Cardinality(settled)
        /\ \A i \in DOMAIN chatMessages :
              /\ chatMessages[i].role = IF i % 2 = 1 THEN "user" ELSE "assistant"
              /\ chatMessages[i].role = "assistant" =>
                    \/ chatMessages[i].content \in {<<"c">>, SorryText}
                    \/ Head(chatMessages[i].content) = "Error:"
        /\ (started = settled) => ~isAnswering

\* two exchanges have settled, one with an answer and one with an error message
C4_Witness ==
    /\ Len(chatMessages) = 4
    /\ InFlightChats = {}
    /\ \E i, j \in DOMAIN chatMessages :
          /\ chatMessages[i].role = "assistant" /\ Head(chatMessages[i].content) = "Error:"
          /\ chatMessages[j].role = "assistant" /\ chatMessages[j].content = <<"c">>

\* C5: at most one exchange is in flight, and while the answering flag is set no
\* exchange starts, no search call is made, and the log grows only by the
\* assistant message of the exchange that settles.
C5_SingleFlight ==
    /\ [](Cardinality(InFlightChats) <= 1)
    /\ [][isAnswering =>
            /\ ~ChatStarts
            /\ searchCalls' = searchCalls
            /\ chatMessages' # chatMessages =>
                  \E c \in ChatIds : chats[c].pc \notin {"idle", "done"} /\ chats'[c].pc = "done"]_vars

\* a non-empty question is waiting in the input while an exchange is in flight
C5_Witness ==
    /\ isAnswering
    /\ Trim(inputMessage) # EmptyString
    /\ Cardinality(InFlightChats) = 1
    /\ \E c \in ChatIds : chats[c].pc = "idle"

\* C6: the step in which an upload settles leaves every registry entry with
\* another id exactly as it was, and neither adds nor removes an entry.
C6_PatchKeyedById ==
    [][\A u \in UploadIds :
          (uploads[u].pc \notin {"idle", "done"} /\ uploads'[u].pc = "done") =>
              /\ Len(documents') = Len(documents)
              /\ \A i \in DOMAIN documents :
                    documents[i].id # uploads[u].id => documents'[i] = documents[i]]_vars

\* the later of two concurrent uploads has settled while the earlier is still
\* waiting for the store, its entry still processing
C6_Witness ==
    /\ uploads[2].pc = "done"
    /\ uploads[1].pc = "store"
    /\ \E i \in DocsWithId(uploads[2].id) : documents[i].status = "ready"
    /\ \E j \in DocsWithId(uploads[1].id) : documents[j].status = "processing"

\* the missing-table signature of a store error
MissingTableSignature(error) ==
    \/ error.code = "PGRST205"
    \/ Includes(error.message, "PGRST205")
    \/ Includes(error.message, "documents")

\* C7: when the store write of an upload fails, the banner is the schema-setup
\* message if the error carries the missing-table signature, else the raw message.
C7_SchemaBanner ==
    [][\A u \in UploadIds :
          ( /\ uploads[u].pc = "store" /\ uploads'[u].pc = "done"
            /\ \E i \in DOMAIN documents' :
                  documents'[i].id = uploads[u].id /\ documents'[i].status = "error" ) =>
              errorStatus' = IF MissingTableSignature(caught') THEN SchemaMessage
                             ELSE caught'.message]_vars

\* C8: a document that is ready or error stays in the registry with that status.
C8_TerminalStatus ==
    [][\A i \in DOMAIN documents :
          documents[i].status \in {"ready", "error"} =>
              /\ \E j \in DOMAIN documents' : documents'[j].id = documents[i].id
              /\ \A j \in DOMAIN documents' :
                    documents'[j].id = documents[i].id =>
                        documents'[j].status = documents[i].status]_vars

\* a ready document has seen a later upload fail
C8_Witness ==
    /\ uploads[1].pc = "done" /\ uploads[2].pc = "done"
    /\ documents[2].status = "ready"
    /\ documents[1].status = "error"

\* empty or entirely whitespace
IsBlank(text) == \A i \in DOMAIN text : text[i] = " "

\* C9: an upload whose extracted text is blank has called neither the Normalizer
\* nor the Store, and once it has settled its document is error with empty content.
C9_BlankTextFails ==
    \A u \in UploadIds :
        (uploads[u].pc # "idle" /\ IsBlank(uploads[u].text)) =>
            /\ \A call \in normCalls \cup storeCalls : call.id # uploads[u].id
            /\ uploads[u].pc = "done" =>
                  \A i \in DocsWithId(uploads[u].id) :
                      documents[i].status = "error" /\ documents[i].content = EmptyString

\* an upload settled on a text of whitespace only
C9_Witness ==
    \E u \in UploadIds :
        /\ uploads[u].pc = "done"
        /\ uploads[u].text = <<" ">>
        /\ caught = EmptyFileError
        /\ \E i \in DocsWithId(uploads[u].id) : documents[i].status = "error"

\* the text of a PDF: each page's fragments joined by a space, then a newline
RECURSIVE ExpectedText(_)
ExpectedText(pages) ==
    IF pages = <<>> THEN <<>>
    ELSE ExpectedText(SubSeq(pages, 1, Len(pages) - 1))
            \o Join(pages[Len(pages)], " ") \o <<"\n">>

\* the calls of a sequential read of pages 1..n
RECURSIVE ExpectedLog(_)
ExpectedLog(n) ==
    IF n = 0 THEN <<>>
    ELSE ExpectedLog(n - 1) \o << <<"getPage", n>>, <<"getTextContent", n>>, <<"text", n>> >>

IsPrefix(p, q) == Len(p) <= Len(q) /\ SubSeq(q, 1, Len(p)) = p

\* C10: the pages are read one after the other in ascending order, the read of
\* page N+1 starting only after page N's text is there, and the result is every
\* page's fragments joined by a space and followed by a newline, in page order.
C10_PdfPagesInOrder ==
    /\ IsPrefix(pdfLog, ExpectedLog(Len(pdfPages)))
    /\ fullText = ExpectedText(SubSeq(pdfPages, 1, pdfI - 1))
    /\ pdfPc = "done" =>
          /\ pdfLog = ExpectedLog(Len(pdfPages))
          /\ fullText = ExpectedText(pdfPages)

\* a 3-page PDF with pages "A", "B", "A B" has been extracted
C10_Witness ==
    /\ pdfPc = "done"
    /\ pdfPages = << <<"A">>, <<"B">>, <<"A", "B">> >>
    /\ fullText = <<"A", "\n", "B", "\n", "A", " ", "B", "\n">>

\* the two dispatch rules, on the MIME type or on the end of the name
MatchesPdfRule(file) == file.type = PdfMime \/ EndsWith(file.name, ".pdf")
MatchesWordRule(file) == file.type = DocxMime \/ EndsWith(file.name, ".docx")

\* the file read of upload u settles with the bytes in this step
ReadSucceeds(u) ==
    /\ uploads[u].pc = "read"
    /\ uploads'[u].pc # "read"
    /\ ~(uploads'[u].pc = "done" /\ caught' \in GenericErrors)

\* C11: after the file read the upload awaits the PDF extraction if rule 1
\* matches, else the Word extraction if rule 2 matches, else it has decoded the
\* bytes in the same step (and is at the Normalizer or has failed as empty).
C11_DispatchFirstMatch ==
    [][\A u \in UploadIds :
          ReadSucceeds(u) =>
              /\ MatchesPdfRule(uploads[u].file) => uploads'[u].pc = "extractPdf"
              /\ (~MatchesPdfRule(uploads[u].file) /\ MatchesWordRule(uploads[u].file)) =>
                    uploads'[u].pc = "extractDocx"
              /\ (~MatchesPdfRule(uploads[u].file) /\ ~MatchesWordRule(uploads[u].file)) =>
                    uploads'[u].pc \in {"normalize", "done"}]_vars

\* a file with the PDF MIME type and a .docx name is in PDF extraction
C11_Witness ==
    /\ uploads[1].pc = "extractPdf"
    /\ uploads[1].file = [name |-> <<"a", ".docx">>, type |-> PdfMime]

\* C12: the user message and the assistant message of one exchange (an odd log
\* position and the next one) have distinct ids.
C12_DistinctIdsInExchange ==
    \A i \in DOMAIN chatMessages :
        (i % 2 = 1 /\ i + 1 <= Len(chatMessages)) =>
            chatMessages[i].id # chatMessages[i + 1].id

CredentialsPresent == supabaseConfig.url # EmptyString /\ supabaseConfig.key # EmptyString

C14_StepsInOrder ==
    /\ \A call \in normCalls :
          \E u \in UploadIds :
              /\ uploads[u].id = call.id
              /\ uploads[u].pc \in {"normalize", "store", "done"}
              /\ call.name = uploads[u].file.name
              /\ call.content = uploads[u].text
              /\ ~IsBlank(call.content)
    /\ \A call \in storeCalls :
          \E u \in UploadIds :
              /\ uploads[u].id = call.id
              /\ uploads[u].pc \in {"store", "done"}
              /\ call.name = uploads[u].file.name
              /\ call.content = uploads[u].processed
              /\ \E n \in normCalls : n.id = call.id
              /\ DocsWithId(call.id) # {}
    /\ \A i \in DOMAIN documents :
          documents[i].status = "ready" =>
              /\ \E u \in UploadIds : uploads[u].id = documents[i].id /\ uploads[u].pc = "done"
              /\ \E call \in storeCalls :
                    /\ call.id = documents[i].id
                    /\ call.name = documents[i].name
                    /\ call.content = documents[i].content
    /\ \A u \in UploadIds :
          uploads[u].pc \in {"read", "extractPdf", "extractDocx"} =>
              \A call \in normCalls \cup storeCalls : call.id # uploads[u].id
    /\ \A u \in UploadIds :
          uploads[u].pc = "normalize" => \A call \in storeCalls : call.id # uploads[u].id

\* an upload went through all steps: its entry is ready with the Normalizer's
\* output, which the Store was given
C14_Witness ==
    \E u \in UploadIds :
        /\ uploads[u].pc = "done"
        /\ uploads[u].processed = <<"c">>
        /\ \E i \in DocsWithId(uploads[u].id) :
              documents[i].status = "ready" /\ documents[i].content = <<"c">>
        /\ [id |-> uploads[u].id, name |-> uploads[u].file.name, content |-> <<"c">>] \in storeCalls

\* C15: the uploading flag is set whenever a document in the registry is processing.
C15_UploadingWhileProcessing ==
    (\E i \in DOMAIN documents : documents[i].status = "processing") => isUploading

====
